---- MODULE Spec2Model ----
(***************************************************************************)
(* A model of the note-delivery plugin (src/main.js): the directory        *)
(* reconciler syncDirectories, the id allocator generateUniqueNumericId    *)
(* and the front-matter editor addSlugToFile.                              *)
(*                                                                         *)
(* Each component has its own specification over the shared variables:     *)
(*   Spec        the reconciler working on one source and one target tree  *)
(*   SpecAlloc   the id allocator, one call after the other                *)
(*   SpecOverlap the id allocator, two calls suspended on I/O at once      *)
(*   SpecDoc     addSlugToFile on one document, with the allocator it      *)
(*               calls                                                     *)
(*   SpecDetect  getFilesToProcess over two source directories             *)
(*   SpecPublish copyMarkdownFiles over the configured blogs               *)
(*   SpecMessage the end of a blog's turn with any list of changed files:  *)
(*               createCommitMessage                                       *)
(*   SpecGit     autoPushToBlog: the command line exec runs, command by    *)
(*               command                                                   *)
(*   SpecPass    copyMarkdownFiles with the calls it makes, over a source  *)
(*               directory, a directory inside it and their targets        *)
(*   SpecPassFair  SpecPass with the plugin's steps taken when they can be *)
(***************************************************************************)
EXTENDS Integers, Sequences, FiniteSets

VARIABLES
    now,            \* the wall clock (Date.now(), and the time a write stamps on a file)
    srcFiles,       \* source tree: relative path -> modification time, or Absent
    tgtFiles,       \* target tree: relative path -> modification time, or Absent
    tgtDirs,        \* directories that exist in the target tree (<<>> is targetDir itself)
    changedFiles,   \* the list the last syncDirectories call returned
    op,             \* the last operation performed, with the inputs it was given
    cleanPasses     \* 1 after a failure-free pass onto an empty target, 2 after the pass that follows it

syncVars == <<now, srcFiles, tgtFiles, tgtDirs, changedFiles, op, cleanPasses>>

VARIABLES
    registry,               \* the array stored in .global-ids.json (empty: no file yet)
    sequentialSlugStart,    \* this.settings.sequentialSlugStart
    slugGenerationMethod,   \* this.settings.slugGenerationMethod
    persistedStart,         \* sequentialSlugStart as last saved by saveSettings
    pc,                     \* where each generateUniqueNumericId invocation stands
    usedIds,                \* each invocation's local usedIds
    newId,                  \* each invocation's local newId
    call,                   \* what each invocation found when it began and when it allocated
    result,                 \* how each invocation ended: the id returned, or thrown
    issued,                 \* the ids returned so far, in order
    calls,                  \* the number of invocations begun
    lastSequential          \* the id of the last sequential allocation since the start value was set

allocVars == <<registry, sequentialSlugStart, slugGenerationMethod, persistedStart,
               pc, usedIds, newId, call, result, issued, calls, lastSequential>>

VARIABLES
    content,    \* the text of the document file addSlugToFile is given
    docPc,      \* where the addSlugToFile invocation stands
    docOp       \* the last addSlugToFile invocation: the text it found and how it ended

docVars == <<content, docPc, docOp>>

VARIABLES
    notes,          \* the .md files of the source directories: modification time and text
    timestampFile,  \* the file .lastProcessTimestamp of the plugin's data directory
    lastPass,       \* per source directory, the time of its last detection pass that returned
    detOp           \* the last step of the detector: a getFilesToProcess call with its inputs and result, or another step

detectVars == <<notes, timestampFile, lastPass, detOp>>

VARIABLES
    blogs,                  \* this.settings.blogs, by what copyMarkdownFiles reads of each blog
    passPc,                 \* where the copyMarkdownFiles invocation stands
    blogIndex,              \* the blog the for loop of line 109 is at
    mappingIndex,           \* the mapping the for loop of line 120 is at
    hasChanges,             \* the local hasChanges of the current blog
    allChangedFilesForBlog, \* the local allChangedFilesForBlog of the current blog
    blogLog                 \* per blog: its notice, the mappings reconciled, the changes gathered, the pushes

publishVars == <<blogs, passPc, blogIndex, mappingIndex, hasChanges,
                 allChangedFilesForBlog, blogLog>>

VARIABLES
    autoSlug,               \* this.settings.autoSlug
    enableFolderMatching,   \* mapping.enableFolderMatching of the mappings of the blog, by position
    nestedTarget,           \* the target tree of the second mapping: the modification time of b.md, or Absent
    passLog                 \* the copyMarkdownFiles invocation: what preceded it and what it has done

passVars == <<autoSlug, enableFolderMatching, nestedTarget, passLog>>

VARIABLES
    shell       \* the child process of autoPushToBlog: the commands run, their exit codes and stderr, and how the promise settled

gitVars == <<shell>>

restVars == <<detectVars, publishVars, passVars, gitVars>>

vars == <<syncVars, allocVars, docVars, restVars>>

----------------------------------------------------------------------------
(* Bounds of the model *)

\* The clock runs from 0 to MaxClock.
MaxClock == 1

\* The number of generateUniqueNumericId invocations of a run.
MaxCalls == 3

\* The settings tab sets the sequential start to a number of -StartRange..StartRange.
StartRange == 1

\* The random mode draws among the first RandomDraws ids of its range.
RandomDraws == 2

\* A document is made of at most MaxAtoms pieces of text.
MaxAtoms == 3

\* The settings hold at most MaxBlogs blogs, each with at most MaxMappings mappings.
MaxBlogs == 2
MaxMappings == 2

\* The mappings of a blog have gathered at most MaxChanged changed files.
MaxChanged == 6

----------------------------------------------------------------------------
(* The file trees *)

Absent == -1

\* The relative file paths of the model: one file in the root, one two
\* directories deep (path.relative(rootDir, fullPath), one name per element).
FilePaths == { <<"a.md">>, <<"d", "e", "b.md">> }

\* The directories of the model; <<>> is the root the call is given.
AllDirs == { <<>>, <<"d">>, <<"d", "e">> }

\* The order in which readdir lists the files.
PathOrder == << <<"a.md">>, <<"d", "e", "b.md">> >>

IsPrefix(d, p) == Len(d) <= Len(p) /\ SubSeq(p, 1, Len(d)) = d

\* The directories a path lies in, the root included.
Ancestors(p) == { d \in AllDirs : Len(d) < Len(p) /\ IsPrefix(d, p) }

ParentDir(p) == SubSeq(p, 1, Len(p) - 1)

NoFiles == [f \in FilePaths |-> Absent]

FilesOf(tree) == { f \in FilePaths : tree[f] # Absent }

InSeq(x, s) == \E i \in 1..Len(s) : s[i] = x

\* getAllFilesRelative: the files of a tree, or nothing when the readdir of
\* its root throws (the catch returns what was collected so far: nothing).
GetAllFilesRelative(tree, readdirFails) ==
    IF readdirFails THEN {} ELSE FilesOf(tree)

\* A comparison that is not strict: equal modification times trigger a copy.
NeedsCopyNotStrict(f, targetFileSet) ==
    \/ f \notin targetFileSet
    \/ srcFiles[f] >= tgtFiles[f]

\* No comparison at all: every listed source file is copied.
NeedsCopyAlways(f, targetFileSet) == TRUE

\* The test of syncDirectories' first loop: copy when the target does not
\* list the file or the source is strictly newer.
NeedsCopy(f, targetFileSet) ==
    \/ f \notin targetFileSet
    \/ srcFiles[f] > tgtFiles[f]

\* The modification time fs.copyFile leaves on the target: the source's
\* (copyfile(3) on macOS, CopyFileW on Windows) or the time of the write
\* (sendfile on Linux).
CopiedMtime(f, preserve) == IF preserve THEN srcFiles[f] ELSE now

\* Nothing is ever deleted from the target.
ExtraFilesNone(deleteExtra, sourceFileSet, targetFileSet, failed) == {}

\* The deleteExtra flag is not consulted: target-only files are always deleted.
ExtraFilesAlways(deleteExtra, sourceFileSet, targetFileSet, failed) ==
    { f \in targetFileSet : f \notin sourceFileSet /\ f \notin failed }

\* Step 2 of syncDirectories: the target files the call deletes.
ExtraFiles(deleteExtra, sourceFileSet, targetFileSet, failed) ==
    IF deleteExtra
    THEN { f \in targetFileSet : f \notin sourceFileSet /\ f \notin failed }
    ELSE {}

ChildDirs(d, dirs) == { c \in dirs : Len(c) = Len(d) + 1 /\ IsPrefix(d, c) }

\* The directory is listed once, before its subdirectories are visited: a
\* directory that holds only empty directories is kept.
RECURSIVE DeleteEmptyDirsOneListing(_, _, _, _)
DeleteEmptyDirsOneListing(directory, dirs, files, readdirFails) ==
    IF directory \notin dirs THEN {}
    ELSE IF readdirFails
    THEN { c \in dirs : IsPrefix(directory, c) }
    ELSE LET below == UNION { DeleteEmptyDirsOneListing(c, dirs, files, FALSE) :
                                  c \in ChildDirs(directory, dirs) }
             entries == { f \in files : ParentDir(f) = directory }
                            \cup ChildDirs(directory, dirs)
         IN  IF entries = {} THEN below ELSE {directory} \cup below

\* deleteEmptyDirs: the directories of `dirs` at or under `directory` that
\* remain after the post-order removal of empty ones.  A directory whose
\* readdir fails is left as it is, with everything under it.
RECURSIVE DeleteEmptyDirs(_, _, _, _)
DeleteEmptyDirs(directory, dirs, files, readdirFails) ==
    IF directory \notin dirs THEN {}
    ELSE IF readdirFails
    THEN { c \in dirs : IsPrefix(directory, c) }
    ELSE LET below == UNION { DeleteEmptyDirs(c, dirs, files, FALSE) :
                                  c \in ChildDirs(directory, dirs) }
             entries == { f \in files : ParentDir(f) = directory }
                            \cup ChildDirs(directory, below)
         IN  IF entries = {} THEN below ELSE {directory} \cup below

\* The first failure ends the loop: nothing is copied when a file fails.
CopiedFilesUntilFailure(sourceFiles, targetFiles, failed) ==
    IF sourceFiles \cap failed # {} THEN {}
    ELSE { f \in sourceFiles : NeedsCopy(f, targetFiles) }

\* Step 1 of syncDirectories: the source files the call copies.  The try of
\* lines 285-303 is inside the loop: a file whose stat, mkdir or copyFile
\* throws is skipped and the loop goes on.
CopiedFiles(sourceFiles, targetFiles, failed) ==
    { f \in sourceFiles : f \notin failed /\ NeedsCopy(f, targetFiles) }

----------------------------------------------------------------------------
(* Operations *)

NoOp(name) ==
    [name |-> name, deleteExtra |-> FALSE, failed |-> {},
     srcUnreadable |-> FALSE, tgtUnreadable |-> FALSE]

\* syncDirectories(sourceDir, targetDir, deleteExtra).  `failed` are the files
\* whose stat, mkdir, copyFile or unlink throws; `srcUnreadable` and
\* `tgtUnreadable` say that the readdir of sourceDir, of targetDir, throws.
SyncDirectories(deleteExtra, failed, srcUnreadable, tgtUnreadable, preserve) ==
    LET sourceFiles == GetAllFilesRelative(srcFiles, srcUnreadable)
        targetFiles == GetAllFilesRelative(tgtFiles, tgtUnreadable)
        copied  == CopiedFiles(sourceFiles, targetFiles, failed)
        deleted == ExtraFiles(deleteExtra, sourceFiles, targetFiles, failed)
        files   == [f \in FilePaths |->
                       IF f \in copied THEN CopiedMtime(f, preserve)
                       ELSE IF f \in deleted THEN Absent
                       ELSE tgtFiles[f]]
        made    == tgtDirs \cup UNION { Ancestors(f) : f \in copied }
        noFailure == failed = {} /\ ~srcUnreadable /\ ~tgtUnreadable
    IN  /\ tgtFiles' = files
        /\ tgtDirs' = DeleteEmptyDirs(<<>>, made, FilesOf(files), tgtUnreadable)
        /\ changedFiles' = SelectSeq(PathOrder, LAMBDA f : f \in copied)
                             \o SelectSeq(PathOrder, LAMBDA f : f \in deleted)
        /\ op' = [name |-> "sync", deleteExtra |-> deleteExtra, failed |-> failed,
                  srcUnreadable |-> srcUnreadable, tgtUnreadable |-> tgtUnreadable]
        /\ cleanPasses' = IF cleanPasses = 1 /\ noFailure THEN 2
                          ELSE IF noFailure /\ ~deleteExtra /\ FilesOf(tgtFiles) = {} THEN 1
                          ELSE 0
        /\ UNCHANGED <<now, srcFiles>>

\* A call of syncDirectories on its own.
Sync ==
    \E deleteExtra \in BOOLEAN, preserve \in BOOLEAN, failed \in SUBSET FilePaths,
       srcUnreadable \in BOOLEAN, tgtUnreadable \in BOOLEAN :
        /\ SyncDirectories(deleteExtra, failed, srcUnreadable, tgtUnreadable, preserve)
        /\ UNCHANGED <<allocVars, docVars, restVars>>

\* Time passes.
Tick ==
    /\ now < MaxClock
    /\ now' = now + 1
    /\ op' = NoOp("tick")
    /\ UNCHANGED <<srcFiles, tgtFiles, tgtDirs, changedFiles, cleanPasses>>
    /\ UNCHANGED <<allocVars, docVars, restVars>>

\* The user writes a note in the source directory.
WriteSource(f) ==
    /\ srcFiles' = [srcFiles EXCEPT ![f] = now]
    /\ op' = NoOp("writeSource")
    /\ cleanPasses' = 0
    /\ UNCHANGED <<now, tgtFiles, tgtDirs, changedFiles>>
    /\ UNCHANGED <<allocVars, docVars, restVars>>

\* The user deletes a note from the source directory.
DeleteSource(f) ==
    /\ srcFiles[f] # Absent
    /\ srcFiles' = [srcFiles EXCEPT ![f] = Absent]
    /\ op' = NoOp("deleteSource")
    /\ cleanPasses' = 0
    /\ UNCHANGED <<now, tgtFiles, tgtDirs, changedFiles>>
    /\ UNCHANGED <<allocVars, docVars, restVars>>

\* Something other than the plugin writes a file in the target repository.
WriteTarget(f) ==
    /\ tgtFiles' = [tgtFiles EXCEPT ![f] = now]
    /\ tgtDirs' = tgtDirs \cup Ancestors(f)
    /\ op' = NoOp("writeTarget")
    /\ cleanPasses' = 0
    /\ UNCHANGED <<now, srcFiles, changedFiles>>
    /\ UNCHANGED <<allocVars, docVars, restVars>>

\* Something other than the plugin makes a directory in the target repository
\* (copyMarkdownFiles itself makes targetAbs before every pass).
MkdirTarget(d) ==
    /\ d \notin tgtDirs
    /\ tgtDirs' = tgtDirs \cup { c \in AllDirs : IsPrefix(c, d) }
    /\ op' = NoOp("mkdirTarget")
    /\ UNCHANGED <<now, srcFiles, tgtFiles, changedFiles, cleanPasses>>
    /\ UNCHANGED <<allocVars, docVars, restVars>>


----------------------------------------------------------------------------
(* The id allocator: generateUniqueNumericId *)

\* DEFAULT_SETTINGS.sequentialSlugStart
DefaultSequentialSlugStart == 1

\* generateId = Math.floor(RandomLow + Math.random() * RandomSpan)
RandomLow == 100000
RandomSpan == 900000

Invocations == {1, 2}

DigitChars == <<"0", "1", "2", "3", "4", "5", "6", "7", "8", "9">>

RECURSIVE NatToString(_)
NatToString(n) ==
    IF n < 10 THEN <<DigitChars[n + 1]>>
    ELSE NatToString(n \div 10) \o <<DigitChars[(n % 10) + 1]>>

\* String(n) of an integer: its decimal digits, after a minus sign when negative.
ToString(n) == IF n < 0 THEN <<"-">> \o NatToString(-n) ELSE NatToString(n)

\* .replace(/"/g, '')
StripQuotes(str) == SelectSeq(str, LAMBDA ch : ch # "\"")

\* The try of lines 245-248: the stored array with the quotes stripped from
\* each id, or the empty array when reading or parsing throws.
ReadUsedIds(ok) ==
    IF ok THEN [i \in DOMAIN registry |-> StripQuotes(registry[i])] ELSE <<>>

\* Array.prototype.includes
Includes(array, x) == \E i \in DOMAIN array : array[i] = x

\* The while loop of lines 253-255.
RECURSIVE ScanSequential(_, _)
ScanSequential(nextId, used) ==
    IF Includes(used, ToString(nextId)) THEN ScanSequential(nextId + 1, used) ELSE nextId

\* The values generateId can give (the first RandomDraws of the RandomSpan).
GenerateId == { RandomLow + r : r \in 0..((IF RandomDraws < RandomSpan THEN RandomDraws ELSE RandomSpan) - 1) }

\* The do-while loop of lines 261-263 ends with a draw that usedIds does not hold.
RandomCandidates(used) == { n \in GenerateId : ~Includes(used, ToString(n)) }

\* What an invocation records for the properties: the registry when it began,
\* whether another invocation was suspended while it ran, whether its read
\* succeeded, the mode it ran in and, in sequential mode, the stored start
\* before and after and the id of the previous sequential allocation.
NoCall == [registry |-> <<>>, overlapped |-> FALSE, readOk |-> TRUE, method |-> "none",
           start |-> 0, startAfter |-> 0, previous |-> <<>>]

NoResult == [returned |-> FALSE, threw |-> FALSE, id |-> <<>>]

InFlight(c) == pc[c] # "idle"

\* generateUniqueNumericId is entered: line 243, up to the await of readFile.
BeginCall(c) ==
    /\ pc[c] = "idle"
    /\ calls < MaxCalls
    /\ calls' = calls + 1
    /\ pc' = [pc EXCEPT ![c] = "readFile"]
    /\ LET others == { d \in Invocations \ {c} : InFlight(d) }
       IN  call' = [d \in Invocations |->
                       IF d = c
                       THEN [NoCall EXCEPT !.registry = registry,
                                           !.overlapped = (others # {})]
                       ELSE IF d \in others
                       THEN [call[d] EXCEPT !.overlapped = TRUE]
                       ELSE call[d]]
    /\ result' = [result EXCEPT ![c] = NoResult]
    /\ usedIds' = [usedIds EXCEPT ![c] = <<>>]
    /\ newId' = [newId EXCEPT ![c] = 0]
    /\ UNCHANGED <<registry, sequentialSlugStart, slugGenerationMethod,
                   persistedStart, issued, lastSequential>>

\* A call of generateUniqueNumericId on its own.
GenCall(c) == BeginCall(c) /\ UNCHANGED <<syncVars, docVars, restVars>>

\* Lines 245-248: readFile and JSON.parse, which throw or not.
GenReadFile(c, ok) ==
    /\ pc[c] = "readFile"
    /\ usedIds' = [usedIds EXCEPT ![c] = ReadUsedIds(ok)]
    /\ call' = [call EXCEPT ![c].readOk = ok]
    /\ pc' = [pc EXCEPT ![c] = "allocate"]
    /\ UNCHANGED <<registry, sequentialSlugStart, slugGenerationMethod, persistedStart,
                   newId, result, issued, calls, lastSequential>>
    /\ UNCHANGED <<syncVars, docVars, restVars>>

\* Lines 251-257: the sequential scan from the stored start, which is then
\* advanced past the id found.
GenSequential(c) ==
    /\ pc[c] = "allocate"
    /\ slugGenerationMethod = "sequential"
    /\ LET found == ScanSequential(sequentialSlugStart, usedIds[c])
       IN  /\ newId' = [newId EXCEPT ![c] = found]
           /\ sequentialSlugStart' = found + 1
           /\ call' = [call EXCEPT ![c].method = "sequential",
                                   ![c].start = sequentialSlugStart,
                                   ![c].startAfter = found + 1,
                                   ![c].previous = lastSequential]
           /\ lastSequential' = <<found>>
    /\ pc' = [pc EXCEPT ![c] = "saveSettings"]
    /\ UNCHANGED <<registry, slugGenerationMethod, persistedStart, usedIds, result,
                   issued, calls>>
    /\ UNCHANGED <<syncVars, docVars, restVars>>

\* Line 258: await this.saveSettings(), which throws or not.
GenSaveSettings(c, ok) ==
    /\ pc[c] = "saveSettings"
    /\ IF ok
       THEN /\ persistedStart' = sequentialSlugStart
            /\ pc' = [pc EXCEPT ![c] = "writeFile"]
            /\ UNCHANGED result
       ELSE /\ pc' = [pc EXCEPT ![c] = "idle"]
            /\ result' = [result EXCEPT ![c] = [NoResult EXCEPT !.threw = TRUE]]
            /\ UNCHANGED persistedStart
    /\ UNCHANGED <<registry, sequentialSlugStart, slugGenerationMethod, usedIds, newId,
                   call, issued, calls, lastSequential>>
    /\ UNCHANGED <<syncVars, docVars, restVars>>

\* Lines 260-263: the random draw, repeated until usedIds does not hold it.
GenRandom(c) ==
    /\ pc[c] = "allocate"
    /\ slugGenerationMethod = "random"
    /\ \E n \in RandomCandidates(usedIds[c]) :
          newId' = [newId EXCEPT ![c] = n]
    /\ call' = [call EXCEPT ![c].method = "random"]
    /\ pc' = [pc EXCEPT ![c] = "writeFile"]
    /\ UNCHANGED <<registry, sequentialSlugStart, slugGenerationMethod, persistedStart,
                   usedIds, result, issued, calls, lastSequential>>
    /\ UNCHANGED <<syncVars, docVars, restVars>>

\* Lines 266-269: the id is pushed, the array written over the file and the
\* id returned; when writeFile throws, so does the call.
GenWriteFile(c, ok) ==
    /\ pc[c] = "writeFile"
    /\ IF ok
       THEN /\ registry' = Append(usedIds[c], ToString(newId[c]))
            /\ result' = [result EXCEPT ![c] = [returned |-> TRUE, threw |-> FALSE,
                                                id |-> ToString(newId[c])]]
            /\ issued' = Append(issued, ToString(newId[c]))
       ELSE /\ result' = [result EXCEPT ![c] = [NoResult EXCEPT !.threw = TRUE]]
            /\ UNCHANGED <<registry, issued>>
    /\ UNCHANGED <<syncVars, docVars, restVars>>
    /\ usedIds' = [usedIds EXCEPT ![c] = Append(usedIds[c], ToString(newId[c]))]
    /\ pc' = [pc EXCEPT ![c] = "idle"]
    /\ UNCHANGED <<sequentialSlugStart, slugGenerationMethod, persistedStart, newId,
                   call, calls, lastSequential>>
    /\ UNCHANGED <<syncVars, docVars, restVars>>

\* The settings tab: the dropdown of lines 417-427.
SetSlugGenerationMethod(value) ==
    /\ value # slugGenerationMethod
    /\ slugGenerationMethod' = value
    /\ UNCHANGED <<registry, sequentialSlugStart, persistedStart, pc, usedIds, newId,
                   call, result, issued, calls, lastSequential>>
    /\ UNCHANGED <<syncVars, docVars, restVars>>

\* The settings tab: the text field of lines 433-443, given a number.
SetSequentialSlugStart(num) ==
    /\ num # sequentialSlugStart
    /\ sequentialSlugStart' = num
    /\ persistedStart' = num
    /\ lastSequential' = <<>>
    /\ UNCHANGED <<registry, slugGenerationMethod, pc, usedIds, newId, call, result,
                   issued, calls>>
    /\ UNCHANGED <<syncVars, docVars, restVars>>

----------------------------------------------------------------------------
(* The front-matter editor: hasSlug and addSlugToFile *)

\* The strings of lines 204-233, as sequences of characters.
Delimiter == <<"-", "-", "-">>
NewLine == <<"\n">>
SlugKey == <<"s", "l", "u", "g", ":">>
Space == <<" ">>
Quote == <<"\"">>

\* The pieces documents are made of: a run of three dashes, a line break,
\* the key of the id field and other text.
Atoms == { Delimiter, NewLine, SlugKey, <<"x">> }

RECURSIVE Concat(_)
Concat(pieces) == IF pieces = <<>> THEN <<>> ELSE Head(pieces) \o Concat(Tail(pieces))

\* The documents of the model.
Docs == { Concat(pieces) : pieces \in UNION { [1..n -> Atoms] : n \in 0..MaxAtoms } }

Min(S) == CHOOSE x \in S : \A y \in S : x <= y

\* String.prototype.startsWith
StartsWith(str, prefix) ==
    Len(prefix) <= Len(str) /\ SubSeq(str, 1, Len(prefix)) = prefix

\* String.prototype.indexOf(pattern, from): the first index (from 0) at or
\* after `from` where the pattern begins, or -1.
IndexOf(str, pattern, from) ==
    LET found == { i \in from..(Len(str) - Len(pattern)) :
                       SubSeq(str, i + 1, i + Len(pattern)) = pattern }
    IN  IF found = {} THEN -1 ELSE Min(found)

\* String.prototype.slice(start, end): a negative index counts from the end.
Slice(str, start, end) ==
    LET n == Len(str)
        from == IF start < 0 THEN (IF n + start < 0 THEN 0 ELSE n + start)
                ELSE (IF start > n THEN n ELSE start)
        to == IF end < 0 THEN (IF n + end < 0 THEN 0 ELSE n + end)
              ELSE (IF end > n THEN n ELSE end)
    IN  IF from >= to THEN <<>> ELSE SubSeq(str, from + 1, to)

\* The test looks at the beginning of the text only.
HasSlugFirstLineOnly(text) == StartsWith(text, SlugKey)

\* content.includes("\nslug:") of lines 204 and 217.
HasSlug(text) == IndexOf(text, NewLine \o SlugKey, 0) # -1

\* The id field is put before the text as its first line, with no line
\* break in front of the key.
InjectSlugAsFirstLine(text, numericId) ==
    SlugKey \o Space \o Quote \o StripQuotes(numericId) \o Quote \o NewLine \o text

\* Lines 222-234 of addSlugToFile: the text with the id put in.
InjectSlug(text, numericId) ==
    LET cleanId == StripQuotes(numericId)
        slugValue == Quote \o cleanId \o Quote
        slugLine == NewLine \o SlugKey \o Space \o slugValue
    IN  IF StartsWith(text, Delimiter)
        THEN LET end == IndexOf(text, NewLine \o Delimiter, 3)
             IN  Slice(text, 0, end) \o slugLine \o Slice(text, end, Len(text))
        ELSE Delimiter \o slugLine \o NewLine \o Delimiter \o NewLine \o text

NoDocOp == [before |-> <<>>, outcome |-> "none", id |-> <<>>]

\* addSlugToFile up to its call of generateUniqueNumericId (lines 215-219):
\* the file is read, which may throw, and a text with an id is left alone.
AddSlugToFileRead(ok) ==
    /\ docPc = "idle"
    /\ pc[1] = "idle"
    /\ IF ~ok
       THEN /\ docOp' = [before |-> content, outcome |-> "readFailed", id |-> <<>>]
            /\ UNCHANGED <<docPc, allocVars>>
       ELSE IF HasSlug(content)
       THEN /\ docOp' = [before |-> content, outcome |-> "kept", id |-> <<>>]
            /\ UNCHANGED <<docPc, allocVars>>
       ELSE /\ docOp' = [before |-> content, outcome |-> "generating", id |-> <<>>]
            /\ docPc' = "generate"
            /\ BeginCall(1)
    /\ UNCHANGED <<content, syncVars, restVars>>

\* addSlugToFile after generateUniqueNumericId (lines 219-239): a thrown
\* error is caught and logged; otherwise the text with the id is written,
\* which may throw as well.
AddSlugToFileWrite(ok) ==
    /\ docPc = "generate"
    /\ pc[1] = "idle"
    /\ docPc' = "idle"
    /\ IF result[1].threw
       THEN /\ docOp' = [docOp EXCEPT !.outcome = "generateFailed"]
            /\ UNCHANGED content
       ELSE IF ok
       THEN /\ content' = InjectSlug(content, result[1].id)
            /\ docOp' = [docOp EXCEPT !.outcome = "written", !.id = result[1].id]
       ELSE /\ docOp' = [docOp EXCEPT !.outcome = "writeFailed", !.id = result[1].id]
            /\ UNCHANGED content
    /\ UNCHANGED <<allocVars, syncVars, restVars>>

----------------------------------------------------------------------------
(* The change detector: getFilesToProcess *)

\* The source directories of two mappings.
Sources == {"A", "B"}

\* The .md files of the model, <<source directory, name>>: one in each directory.
Notes == { <<"A", "a.md">>, <<"B", "b.md">> }

\* The order in which readdir lists them.
NoteOrder == << <<"A", "a.md">>, <<"B", "b.md">> >>

\* The texts a note may hold: one without an id field, one with.
NoteTexts == { <<"x">>,
               Delimiter \o NewLine \o SlugKey \o Space \o <<"\"", "1", "\"">>
                   \o NewLine \o Delimiter \o NewLine }

NoNote == [mtime |-> Absent, text |-> <<>>]

\* mdFiles: the .md files readdir lists in a source directory (lines 130-133).
MdFiles(source) ==
    SelectSeq(NoteOrder, LAMBDA n : n[1] = source /\ notes[n].mtime # Absent)

NoTimestampFile == [exists |-> FALSE, data |-> <<>>]

NaN == [nan |-> TRUE, value |-> 0]

Number(v) == [nan |-> FALSE, value |-> v]

IsDigit(ch) == \E i \in DOMAIN DigitChars : DigitChars[i] = ch

DigitValue(ch) == (CHOOSE i \in DOMAIN DigitChars : DigitChars[i] = ch) - 1

RECURSIVE DigitsValue(_, _)
DigitsValue(str, acc) ==
    IF str = <<>> \/ ~IsDigit(Head(str)) THEN acc
    ELSE DigitsValue(Tail(str), 10 * acc + DigitValue(Head(str)))

\* parseInt(str, 10) of a text without sign or leading blanks: the number its
\* leading digits spell, NaN when it does not begin with a digit.
ParseInt(str) ==
    IF str = <<>> \/ ~IsDigit(Head(str)) THEN NaN ELSE Number(DigitsValue(str, 0))

\* Lines 183-186: 0 when readFile throws (no file, or an error), and
\* otherwise whatever parseInt makes of the content.
ReadTimestamp(ok) ==
    IF ok /\ timestampFile.exists THEN ParseInt(timestampFile.data) ELSE Number(0)

\* x > num in JavaScript: false when num is NaN.
GreaterThan(x, num) == ~num.nan /\ x > num.value

\* hasSlug (lines 201-206): false when the file cannot be read.
HasSlugFile(n, unreadable) == n \notin unreadable /\ HasSlug(notes[n].text)

\* The test of line 192.
ToProcess(n, lastProcessTimestamp, unreadable) ==
    GreaterThan(notes[n].mtime, lastProcessTimestamp) \/ ~HasSlugFile(n, unreadable)

NoDetOp(name) ==
    [name |-> name, source |-> "A", readOk |-> TRUE, statFailed |-> {},
     unreadable |-> {}, writeOk |-> TRUE, threw |-> FALSE, filesToProcess |-> <<>>]

\* getFilesToProcess(mdFiles, source), mdFiles being the .md files of source.
\* `readOk` and `writeOk` say whether the readFile of line 185 and the
\* writeFile of line 197 succeed, `statFailed` are the listed files whose
\* stat throws (line 191, outside any try), `unreadable` those hasSlug
\* cannot read.
GetFilesToProcess(source, readOk, statFailed, unreadable, writeOk) ==
    LET mdFiles == MdFiles(source)
        lastProcessTimestamp == ReadTimestamp(readOk)
        filesToProcess ==
            SelectSeq(mdFiles, LAMBDA n : ToProcess(n, lastProcessTimestamp, unreadable))
        statThrows == \E i \in DOMAIN mdFiles : mdFiles[i] \in statFailed
        throws == statThrows \/ ~writeOk
    IN  /\ timestampFile' = IF ~statThrows /\ writeOk
                            THEN [exists |-> TRUE, data |-> ToString(now)]
                            ELSE timestampFile
        /\ lastPass' = IF throws THEN lastPass ELSE [lastPass EXCEPT ![source] = now]
        /\ detOp' = [name |-> "detect", source |-> source, readOk |-> readOk,
                     statFailed |-> statFailed, unreadable |-> unreadable,
                     writeOk |-> writeOk, threw |-> throws,
                     filesToProcess |-> IF throws THEN <<>> ELSE filesToProcess]
        /\ UNCHANGED notes

\* The user writes a note: a new text, stamped with the time of the write.
WriteNote(n, text) ==
    /\ notes' = [notes EXCEPT ![n] = [mtime |-> now, text |-> text]]
    /\ detOp' = NoDetOp("writeNote")
    /\ UNCHANGED <<timestampFile, lastPass>>
    /\ UNCHANGED <<syncVars, allocVars, docVars, publishVars, passVars, gitVars>>

\* The timestamp file is left empty (a write cut short after the truncation).
TruncateTimestamp ==
    /\ timestampFile.exists
    /\ timestampFile.data # <<>>
    /\ timestampFile' = [exists |-> TRUE, data |-> <<>>]
    /\ detOp' = NoDetOp("truncate")
    /\ UNCHANGED <<notes, lastPass>>
    /\ UNCHANGED <<syncVars, allocVars, docVars, publishVars, passVars, gitVars>>

\* The notes of a source directory.
NotesIn(source) == { n \in Notes : n[1] = source }

----------------------------------------------------------------------------
(* The orchestrator: copyMarkdownFiles and createCommitMessage *)

\* The literals of lines 170 and 178, which are Chinese text a string of
\* this module cannot hold, in English: the default message, the opening of
\* the message, and the two pieces around the number that closes it.
DefaultMessage == "auto commit"
MessagePrefix == "updated files: "
MessageEtc == " etc., "
MessageFiles == " files"

\* The last component of a path: p.split(/[\\/]/).pop()
Basename(path) == path[Len(path)]

\* Array.from(new Set(names)): the names without repetitions, in the order
\* of their first occurrence.
RECURSIVE Distinct(_, _)
Distinct(names, seen) ==
    IF names = <<>> THEN seen
    ELSE Distinct(Tail(names),
                  IF InSeq(Head(names), seen) THEN seen ELSE Append(seen, Head(names)))

\* names.join(", ")
RECURSIVE Join(_)
Join(names) ==
    IF names = <<>> THEN <<>>
    ELSE IF Len(names) = 1 THEN names
    ELSE <<Head(names), ", ">> \o Join(Tail(names))

\* The names are not deduplicated.
FilenamesWithRepetitions(changed) ==
    [i \in DOMAIN changed |-> Basename(changed[i])]

\* Lines 173-175 of createCommitMessage.
Filenames(changed) ==
    Distinct([i \in DOMAIN changed |-> Basename(changed[i])], <<>>)

\* createCommitMessage(changedFiles), the parameter being `changed` here: the message as the sequence of the
\* pieces of text it is put together from.
CreateCommitMessage(changed) ==
    IF Len(changed) = 0 THEN <<DefaultMessage>>
    ELSE LET filenames == Filenames(changed)
             fileList == Join(SubSeq(filenames, 1, IF Len(filenames) < 5 THEN Len(filenames) ELSE 5))
         IN  <<MessagePrefix>> \o fileList
                 \o (IF Len(filenames) > 5
                     THEN <<MessageEtc>> \o ToString(Len(filenames)) \o <<MessageFiles>>
                     ELSE <<>>)

\* What copyMarkdownFiles reads of a blog: whether blogRepoPath and a
\* non-empty pathMappings are there (line 110), autoGit, and the number of
\* its mappings.
IncompleteBlog == [complete |-> FALSE, autoGit |-> FALSE, mappings |-> 0]

BlogConfigs ==
    {IncompleteBlog} \cup
    [complete : {TRUE}, autoGit : BOOLEAN, mappings : 1..MaxMappings]

\* mapping.target of the mappings of a blog, by position.
MappingTargets == <<"posts", "notes", "pages">>

\* What syncDirectories may return for a mapping.
ChangeLists == { <<>>, << <<"a.md">> >> }

NoBlogLog ==
    [notice |-> "none", reconciled |-> 0, changes |-> <<>>,
     pushes |-> 0, pushedAfter |-> 0, message |-> <<>>]

\* The error is not caught inside the loop: no later blog is processed.
AfterErrorLeave(i) == Len(blogs) + 1

\* The blog the loop goes on with after the catch of lines 160-163.
AfterError(i) == i + 1

\* The push does not depend on there being changes.
ShouldPushWithoutChanges(changes, autoGit) == autoGit

\* Lines 149-150: the commit and push are called for when a mapping
\* returned changes and autoGit is set.
ShouldPush(changes, autoGit) == changes /\ autoGit

\* copyMarkdownFiles is entered (lines 104-107).
CopyMarkdownFiles ==
    /\ passPc = "idle"
    /\ IF Len(blogs) = 0
       THEN passPc' = "done" /\ UNCHANGED blogIndex
       ELSE passPc' = "blog" /\ blogIndex' = 1
    /\ UNCHANGED <<blogs, mappingIndex, hasChanges, allChangedFilesForBlog, blogLog>>
    /\ UNCHANGED <<syncVars, allocVars, docVars, detectVars, passVars, gitVars>>

\* The head of the loop over the blogs (lines 109-116): an incomplete blog
\* is skipped with a notice.
BeginBlog ==
    /\ passPc = "blog"
    /\ IF blogIndex > Len(blogs)
       THEN /\ passPc' = "done"
            /\ UNCHANGED <<blogIndex, mappingIndex, hasChanges,
                           allChangedFilesForBlog, blogLog>>
       ELSE IF ~blogs[blogIndex].complete
       THEN /\ blogLog' = [blogLog EXCEPT ![blogIndex].notice = "incomplete"]
            /\ blogIndex' = blogIndex + 1
            /\ UNCHANGED <<passPc, mappingIndex, hasChanges, allChangedFilesForBlog>>
       ELSE /\ passPc' = "mapping"
            /\ mappingIndex' = 1
            /\ hasChanges' = FALSE
            /\ allChangedFilesForBlog' = <<>>
            /\ UNCHANGED <<blogIndex, blogLog>>
    /\ UNCHANGED blogs
    /\ UNCHANGED <<syncVars, allocVars, docVars, detectVars, passVars, gitVars>>

\* One turn of the loop over the mappings (lines 120-147), by the outcome of
\* the calls it makes: mkdir, getFilesToProcess or addSlugsToFiles throws
\* (threw), or syncDirectories returns the list `changed`.
ReconcileMapping(threw, changed) ==
    /\ passPc = "mapping"
    /\ mappingIndex <= blogs[blogIndex].mappings
    /\ IF threw
       THEN /\ blogLog' = [blogLog EXCEPT ![blogIndex].notice = "failed"]
            /\ blogIndex' = AfterError(blogIndex)
            /\ passPc' = "blog"
            /\ UNCHANGED <<mappingIndex, hasChanges, allChangedFilesForBlog>>
       ELSE LET changedFilePaths ==
                    [i \in DOMAIN changed |->
                        <<MappingTargets[mappingIndex]>> \o changed[i]]
                gathered == allChangedFilesForBlog \o changedFilePaths
            IN  /\ hasChanges' = (hasChanges \/ Len(changed) > 0)
                /\ allChangedFilesForBlog' =
                       IF Len(changed) > 0 THEN gathered ELSE allChangedFilesForBlog
                /\ blogLog' = [blogLog EXCEPT
                                  ![blogIndex].reconciled = @ + 1,
                                  ![blogIndex].changes =
                                      IF Len(changed) > 0 THEN gathered ELSE @]
                /\ mappingIndex' = mappingIndex + 1
                /\ UNCHANGED <<passPc, blogIndex>>
    /\ UNCHANGED blogs
    /\ UNCHANGED <<syncVars, allocVars, docVars, detectVars, passVars, gitVars>>

\* After the last mapping (lines 149-158): the commit and push when called
\* for, which may fail (gitOk), and the notice.
FinishBlog(gitOk) ==
    /\ passPc = "mapping"
    /\ mappingIndex > blogs[blogIndex].mappings
    /\ LET push == ShouldPush(hasChanges, blogs[blogIndex].autoGit)
           pushed == [blogLog EXCEPT
                         ![blogIndex].pushes = @ + 1,
                         ![blogIndex].pushedAfter = blogLog[blogIndex].reconciled,
                         ![blogIndex].message = CreateCommitMessage(allChangedFilesForBlog)]
       IN  IF push /\ ~gitOk
           THEN /\ blogLog' = [pushed EXCEPT ![blogIndex].notice = "failed"]
                /\ blogIndex' = AfterError(blogIndex)
           ELSE /\ blogLog' = [(IF push THEN pushed ELSE blogLog) EXCEPT
                                  ![blogIndex].notice =
                                      IF hasChanges THEN "synced" ELSE "noChanges"]
                /\ blogIndex' = blogIndex + 1
    /\ passPc' = "blog"
    /\ UNCHANGED <<blogs, mappingIndex, hasChanges, allChangedFilesForBlog>>
    /\ UNCHANGED <<syncVars, allocVars, docVars, detectVars, passVars, gitVars>>

----------------------------------------------------------------------------
(* The commit and push: autoPushToBlog *)

\* The commands of lines 370-375, in the order they are joined.
Commands == <<"cd", "git add", "git commit", "git push">>

\* The exit codes a command may end with.
ExitCodes == {0, 1, 128}

\* The literal of line 381, in English.
GitFailed == "git push failed"

NoShell ==
    [pc |-> "idle", execs |-> 0, spawned |-> FALSE, ran |-> <<>>, codes |-> <<>>,
     stderr |-> <<>>, settled |-> "none", message |-> <<>>]

\* The commands are joined by ";": the next one runs whatever the exit code.
ContinuesAlways(code) == TRUE

\* The join of line 375, " && ": the shell goes on to the next command when
\* the command exits with 0.
Continues(code) == code = 0

\* stderr || "..." of line 381.
ErrorMessage(stderr) == IF stderr = <<>> THEN <<GitFailed>> ELSE stderr

\* autoPushToBlog is called: the one exec of line 377, which starts the
\* shell or fails to.
AutoPushToBlog(spawnOk) ==
    /\ shell.pc \in {"idle", "settled"}
    /\ shell' = [NoShell EXCEPT !.pc = IF spawnOk THEN "running" ELSE "exited",
                                !.execs = 1,
                                !.spawned = spawnOk]
    /\ UNCHANGED <<syncVars, allocVars, docVars, detectVars, publishVars, passVars>>

\* The shell runs the next command of the line, which exits with `code`,
\* having written a text of its own on stderr or nothing, and goes on or
\* exits.
RunCommand(code, wrote) ==
    /\ shell.pc = "running"
    /\ LET i == Len(shell.ran) + 1
       IN  shell' = [shell EXCEPT
                        !.ran = Append(@, Commands[i]),
                        !.codes = Append(@, code),
                        !.stderr = IF wrote THEN Append(@, Commands[i]) ELSE @,
                        !.pc = IF Continues(code) /\ i < Len(Commands)
                               THEN "running" ELSE "exited"]
    /\ UNCHANGED <<syncVars, allocVars, docVars, detectVars, publishVars, passVars>>

\* The callback of lines 377-385: error is set when the shell could not be
\* started or exited with a code other than 0.
ExecCallback ==
    /\ shell.pc = "exited"
    /\ LET error == ~shell.spawned \/ shell.codes[Len(shell.codes)] # 0
       IN  shell' = [shell EXCEPT
                        !.pc = "settled",
                        !.settled = IF error THEN "rejected" ELSE "resolved",
                        !.message = IF error THEN ErrorMessage(shell.stderr) ELSE <<>>]
    /\ UNCHANGED <<syncVars, allocVars, docVars, detectVars, publishVars, passVars>>

----------------------------------------------------------------------------
(* The whole pass: copyMarkdownFiles with the calls it makes *)

\* mapping.source of the two mappings of the blog, by position: the source
\* directory whose tree is srcFiles (directory "A" of the notes, with a.md),
\* and the directory d/e inside it (directory "B" of the notes, with b.md).
MappingSources == <<"A", "B">>

\* The file of the inner directory, as the outer directory's tree has it.
Nested == <<"d", "e", "b.md">>

\* The path of a note in the tree of the outer source directory.
TreePath(n) == IF n[1] = "A" THEN <<n[2]>> ELSE Nested

\* The lists of blogs of the settings: none, a blog with autoGit and one
\* mapping or both, or an incomplete blog before a blog without autoGit.
PassBlogs ==
    { <<>>,
      << [complete |-> TRUE, autoGit |-> TRUE, mappings |-> 1] >>,
      << [complete |-> TRUE, autoGit |-> TRUE, mappings |-> Len(MappingSources)] >>,
      << IncompleteBlog, [complete |-> TRUE, autoGit |-> FALSE, mappings |-> 1] >> }

\* The contents of .global-ids.json: no id, or every id generateId can give.
Registries ==
    { [i \in 1..n |-> ToString(RandomLow + i - 1)] : n \in {0, Cardinality(GenerateId)} }

\* What is recorded of an invocation: whether it is the second of the two;
\* whether something failed in it; the ids it was given and the notes it
\* rewrote.
NoPassLog == [again |-> FALSE, failed |-> FALSE, allocated |-> 0, rewritten |-> 0]

\* Ids are put in whatever the switch says.
SlugWantedWhateverTheSwitch(filesToProcessForSlug) == Len(filesToProcessForSlug) > 0

\* The test of line 138.
SlugWanted(filesToProcessForSlug) == autoSlug /\ Len(filesToProcessForSlug) > 0

\* What may go wrong in lines 121-136: nothing, or one of the mkdir of the
\* target, the read of the timestamp file, the read of a file by hasSlug and
\* the write of the timestamp file.
Faults == {"none", "mkdir", "readTimestamp", "hasSlug", "writeTimestamp"}

\* Lines 121-136 of a mapping's turn: the mkdir of the target, the listing
\* of the source and getFilesToProcess.  What throws is caught at line 160
\* and ends the blog's turn.
PassDetect(fault) ==
    /\ passPc = "mapping"
    /\ mappingIndex <= blogs[blogIndex].mappings
    /\ LET source == MappingSources[mappingIndex]
           unreadable == IF fault = "hasSlug" THEN NotesIn(source) ELSE {}
       IN  IF fault = "mkdir"
           THEN /\ detOp' = [NoDetOp("mkdir") EXCEPT !.threw = TRUE]
                /\ UNCHANGED <<notes, timestampFile, lastPass>>
           ELSE GetFilesToProcess(source, fault # "readTimestamp", {}, unreadable,
                                  fault # "writeTimestamp")
    /\ IF detOp'.threw
       THEN /\ blogLog' = [blogLog EXCEPT ![blogIndex].notice = "failed"]
            /\ blogIndex' = AfterError(blogIndex)
            /\ passPc' = "blog"
       ELSE /\ passPc' = IF SlugWanted(detOp'.filesToProcess) THEN "slug" ELSE "sync"
            /\ UNCHANGED <<blogIndex, blogLog>>
    /\ passLog' = [passLog EXCEPT !.failed = @ \/ fault # "none"]
    /\ UNCHANGED <<blogs, mappingIndex, hasChanges, allChangedFilesForBlog>>
    /\ UNCHANGED <<autoSlug, enableFolderMatching, nestedTarget>>
    /\ UNCHANGED <<syncVars, allocVars, docVars, gitVars>>

\* addSlugsToFiles (lines 208-212) on the file getFilesToProcess reported,
\* up to the call of generateUniqueNumericId: addSlugToFile reads the file,
\* which may throw (caught and logged at line 237), and leaves a text with
\* an id alone (lines 215-217).
PassSlugRead(ok) ==
    /\ passPc = "slug"
    /\ pc[1] = "idle"
    /\ LET n == detOp.filesToProcess[1]
       IN  IF ~ok
           THEN /\ passPc' = "sync"
                /\ passLog' = [passLog EXCEPT !.failed = TRUE]
                /\ UNCHANGED allocVars
           ELSE IF HasSlug(notes[n].text)
           THEN /\ passPc' = "sync"
                /\ UNCHANGED <<passLog, allocVars>>
           ELSE /\ passPc' = "generate"
                /\ BeginCall(1)
                /\ UNCHANGED passLog
    /\ UNCHANGED <<blogs, blogIndex, mappingIndex, hasChanges, allChangedFilesForBlog,
                   blogLog>>
    /\ UNCHANGED <<autoSlug, enableFolderMatching, nestedTarget>>
    /\ UNCHANGED <<syncVars, docVars, detectVars, gitVars>>

\* addSlugToFile after generateUniqueNumericId has returned or thrown (lines
\* 219-239): the text with the id is written over the file, which may throw.
PassSlugWrite(ok) ==
    /\ passPc = "generate"
    /\ pc[1] = "idle"
    /\ passPc' = "sync"
    /\ LET n == detOp.filesToProcess[1]
       IN  IF result[1].threw
           THEN /\ passLog' = [passLog EXCEPT !.failed = TRUE]
                /\ UNCHANGED <<notes, srcFiles>>
           ELSE IF ok
           THEN /\ notes' = [notes EXCEPT ![n] =
                               [mtime |-> now,
                                text |-> InjectSlug(notes[n].text, result[1].id)]]
                /\ srcFiles' = [srcFiles EXCEPT ![TreePath(n)] = now]
                /\ passLog' = [passLog EXCEPT !.allocated = @ + 1, !.rewritten = @ + 1]
           ELSE /\ passLog' = [passLog EXCEPT !.allocated = @ + 1, !.failed = TRUE]
                /\ UNCHANGED <<notes, srcFiles>>
    /\ UNCHANGED <<blogs, blogIndex, mappingIndex, hasChanges, allChangedFilesForBlog,
                   blogLog>>
    /\ UNCHANGED <<autoSlug, enableFolderMatching, nestedTarget>>
    /\ UNCHANGED <<now, tgtFiles, tgtDirs, changedFiles, op, cleanPasses>>
    /\ UNCHANGED <<timestampFile, lastPass, detOp>>
    /\ UNCHANGED <<allocVars, docVars, gitVars>>

\* syncDirectories(sourceDir, targetDir, deleteExtra) for the inner source
\* directory, whose one file is b.md, and its target.  `failed` says that the
\* stat, copyFile or unlink of the file throws.
SyncNestedDirectory(deleteExtra, failed, preserve) ==
    LET inSource == srcFiles[Nested] # Absent
        inTarget == nestedTarget # Absent
        copied  == inSource /\ ~failed /\ (~inTarget \/ srcFiles[Nested] > nestedTarget)
        deleted == deleteExtra /\ inTarget /\ ~inSource /\ ~failed
    IN  /\ nestedTarget' = IF copied THEN CopiedMtime(Nested, preserve)
                           ELSE IF deleted THEN Absent
                           ELSE nestedTarget
        /\ changedFiles' = IF copied \/ deleted THEN << <<"b.md">> >> ELSE <<>>
        /\ op' = [name |-> "sync", deleteExtra |-> deleteExtra,
                  failed |-> IF failed THEN {Nested} ELSE {},
                  srcUnreadable |-> FALSE, tgtUnreadable |-> FALSE]
        /\ UNCHANGED <<now, srcFiles, tgtFiles, tgtDirs, cleanPasses>>

\* Lines 143-147 of a mapping's turn: syncDirectories and the gathering of
\* what it returned.
PassSync(syncOk, preserve) ==
    /\ passPc = "sync"
    /\ LET deleteExtra == enableFolderMatching[mappingIndex]
       IN  IF mappingIndex = 1
           THEN /\ SyncDirectories(deleteExtra, IF syncOk THEN {} ELSE FilePaths,
                                   FALSE, FALSE, preserve)
                /\ UNCHANGED nestedTarget
           ELSE SyncNestedDirectory(deleteExtra, ~syncOk, preserve)
    /\ LET changed == changedFiles'
           changedFilePaths ==
               [i \in DOMAIN changed |-> <<MappingTargets[mappingIndex]>> \o changed[i]]
           gathered == allChangedFilesForBlog \o changedFilePaths
       IN  /\ hasChanges' = (hasChanges \/ Len(changed) > 0)
           /\ allChangedFilesForBlog' =
                  IF Len(changed) > 0 THEN gathered ELSE allChangedFilesForBlog
           /\ blogLog' = [blogLog EXCEPT
                             ![blogIndex].reconciled = @ + 1,
                             ![blogIndex].changes = IF Len(changed) > 0 THEN gathered ELSE @]
    /\ mappingIndex' = mappingIndex + 1
    /\ passPc' = "mapping"
    /\ passLog' = [passLog EXCEPT !.failed = @ \/ ~syncOk]
    /\ UNCHANGED <<blogs, blogIndex>>
    /\ UNCHANGED <<autoSlug, enableFolderMatching>>
    /\ UNCHANGED <<allocVars, docVars, detectVars, gitVars>>

\* The handler of lines 40-42 returns and the icon can be clicked again; the
\* model follows an invocation in which nothing failed and the one after it.
PassReturn ==
    /\ passPc = "done"
    /\ ~passLog.again
    /\ ~passLog.failed
    /\ \A i \in DOMAIN blogs : blogLog[i].notice # "failed"
    /\ calls + Cardinality(Notes) <= MaxCalls
    /\ passPc' = "idle"
    /\ blogIndex' = 0
    /\ blogLog' = [i \in DOMAIN blogs |-> NoBlogLog]
    /\ passLog' = [NoPassLog EXCEPT !.again = TRUE]
    /\ UNCHANGED <<blogs, mappingIndex, hasChanges, allChangedFilesForBlog>>
    /\ UNCHANGED <<autoSlug, enableFolderMatching, nestedTarget>>
    /\ UNCHANGED <<syncVars, allocVars, docVars, detectVars, gitVars>>

InitGit == shell = NoShell

InitPass ==
    /\ autoSlug = FALSE
    /\ enableFolderMatching = <<FALSE, FALSE>>
    /\ nestedTarget = Absent
    /\ passLog = NoPassLog

InitPublish ==
    /\ blogs = <<>>
    /\ passPc = "idle"
    /\ blogIndex = 0
    /\ mappingIndex = 0
    /\ hasChanges = FALSE
    /\ allChangedFilesForBlog = <<>>
    /\ blogLog = <<>>

InitDetect ==
    /\ notes = [n \in Notes |-> NoNote]
    /\ timestampFile = NoTimestampFile
    /\ lastPass = [s \in Sources |-> Absent]
    /\ detOp = NoDetOp("none")

InitRest == InitDetect /\ InitPublish /\ InitPass /\ InitGit

InitDoc ==
    /\ content = <<>>
    /\ docPc = "idle"
    /\ docOp = NoDocOp

InitSync ==
    /\ now = 0
    /\ srcFiles = NoFiles
    /\ tgtFiles = NoFiles
    /\ tgtDirs = {}
    /\ changedFiles = <<>>
    /\ op = NoOp("init")
    /\ cleanPasses = 0

InitAlloc ==
    /\ registry = <<>>
    /\ sequentialSlugStart = DefaultSequentialSlugStart
    /\ persistedStart = DefaultSequentialSlugStart
    /\ slugGenerationMethod = "random"
    /\ pc = [c \in Invocations |-> "idle"]
    /\ usedIds = [c \in Invocations |-> <<>>]
    /\ newId = [c \in Invocations |-> 0]
    /\ call = [c \in Invocations |-> NoCall]
    /\ result = [c \in Invocations |-> NoResult]
    /\ issued = <<>>
    /\ calls = 0
    /\ lastSequential = <<>>

SettingsTab ==
    \/ \E value \in {"random", "sequential"} : SetSlugGenerationMethod(value)
    \/ \E num \in (0 - StartRange)..StartRange : SetSequentialSlugStart(num)

\* One invocation at a time; every file operation may throw.
NextAlloc ==
    \/ GenCall(1)
    \/ \E ok \in BOOLEAN : GenReadFile(1, ok)
    \/ GenSequential(1)
    \/ \E ok \in BOOLEAN : GenSaveSettings(1, ok)
    \/ GenRandom(1)
    \/ \E ok \in BOOLEAN : GenWriteFile(1, ok)
    \/ SettingsTab

\* Two invocations whose suspensions interleave; no file operation throws.
NextOverlap ==
    \/ \E c \in Invocations : GenCall(c)
    \/ \E c \in Invocations : GenReadFile(c, TRUE)
    \/ \E c \in Invocations : GenSequential(c)
    \/ \E c \in Invocations : GenSaveSettings(c, TRUE)
    \/ \E c \in Invocations : GenRandom(c)
    \/ \E c \in Invocations : GenWriteFile(c, TRUE)
    \/ SettingsTab

Init == InitSync /\ InitAlloc /\ InitDoc /\ InitRest

\* The reconciler and what happens to the two trees around it.
Next ==
    \/ Sync
    \/ Tick
    \/ \E f \in FilePaths : WriteSource(f)
    \/ \E f \in FilePaths : DeleteSource(f)
    \/ \E f \in FilePaths : WriteTarget(f)
    \/ \E d \in AllDirs : MkdirTarget(d)

Spec == Init /\ [][Next]_vars

SpecAlloc == Init /\ [][NextAlloc]_vars

SpecOverlap == Init /\ [][NextOverlap]_vars

\* addSlugToFile is given any document, in either mode of the allocator.
InitDocs ==
    /\ InitSync
    /\ InitAlloc
    /\ content \in Docs
    /\ docPc = "idle"
    /\ docOp = NoDocOp
    /\ InitRest

\* addSlugToFile, again and again on the same file; every file operation may
\* throw.  The mode of the allocator is chosen before the file is first
\* processed.
NextDoc ==
    \/ \E ok \in BOOLEAN : AddSlugToFileRead(ok)
    \/ \E ok \in BOOLEAN : GenReadFile(1, ok)
    \/ GenSequential(1)
    \/ \E ok \in BOOLEAN : GenSaveSettings(1, ok)
    \/ GenRandom(1)
    \/ \E ok \in BOOLEAN : GenWriteFile(1, ok)
    \/ \E ok \in BOOLEAN : AddSlugToFileWrite(ok)
    \/ \E value \in {"random", "sequential"} :
           calls = 0 /\ docOp = NoDocOp /\ SetSlugGenerationMethod(value)

SpecDoc == InitDocs /\ [][NextDoc]_vars

\* Detection passes over the two source directories, in any order, while
\* notes are written and time passes; every file operation may throw.
NextDetect ==
    \/ \E source \in Sources, readOk \in BOOLEAN, writeOk \in BOOLEAN :
          \E statFailed \in SUBSET NotesIn(source), unreadable \in SUBSET NotesIn(source) :
              /\ GetFilesToProcess(source, readOk, statFailed, unreadable, writeOk)
              /\ UNCHANGED <<syncVars, allocVars, docVars, publishVars, passVars, gitVars>>
    \/ \E n \in Notes, text \in NoteTexts : WriteNote(n, text)
    \/ TruncateTimestamp
    \/ Tick

SpecDetect == Init /\ [][NextDetect]_vars

\* The ribbon icon is clicked with any list of blogs in the settings.
InitBlogs ==
    /\ InitSync /\ InitAlloc /\ InitDoc /\ InitDetect /\ InitPass /\ InitGit
    /\ blogs \in UNION { [1..n -> BlogConfigs] : n \in 0..MaxBlogs }
    /\ passPc = "idle"
    /\ blogIndex = 0
    /\ mappingIndex = 0
    /\ hasChanges = FALSE
    /\ allChangedFilesForBlog = <<>>
    /\ blogLog = [i \in DOMAIN blogs |-> NoBlogLog]

\* One invocation of copyMarkdownFiles; a mapping may throw and the push may fail.
NextPublish ==
    \/ CopyMarkdownFiles
    \/ BeginBlog
    \/ \E changed \in ChangeLists : ReconcileMapping(FALSE, changed)
    \/ ReconcileMapping(TRUE, <<>>)
    \/ \E gitOk \in BOOLEAN : FinishBlog(gitOk)

SpecPublish == InitBlogs /\ [][NextPublish]_vars

\* The changed files of the model: six names in the target directory of the
\* mapping, and one of these names again in a directory below it.
ChangedPaths ==
    { <<"posts", "a.md">>, <<"posts", "b.md">>, <<"posts", "c.md">>,
      <<"posts", "d.md">>, <<"posts", "e.md">>, <<"posts", "f.md">>,
      <<"posts", "sub", "a.md">> }

\* The lists of n changed files, no file twice.
RECURSIVE ChangedLists(_)
ChangedLists(n) ==
    IF n = 0 THEN { <<>> }
    ELSE UNION { { Append(list, path) :
                       path \in ChangedPaths \ { list[i] : i \in DOMAIN list } } :
                   list \in ChangedLists(n - 1) }

\* A blog with autoGit whose one mapping has been reconciled and returned
\* any list of changed files: copyMarkdownFiles stands at line 149.
InitMessage ==
    /\ InitSync /\ InitAlloc /\ InitDoc /\ InitDetect /\ InitPass /\ InitGit
    /\ blogs = << [complete |-> TRUE, autoGit |-> TRUE, mappings |-> 1] >>
    /\ passPc = "mapping"
    /\ blogIndex = 1
    /\ mappingIndex = 2
    /\ hasChanges = TRUE
    /\ allChangedFilesForBlog \in UNION { ChangedLists(n) : n \in 1..MaxChanged }
    /\ blogLog = << [NoBlogLog EXCEPT !.reconciled = 1, !.changes = allChangedFilesForBlog] >>

NextMessage ==
    \/ \E gitOk \in BOOLEAN : FinishBlog(gitOk)
    \/ BeginBlog

SpecMessage == InitMessage /\ [][NextMessage]_vars

\* autoPushToBlog, called again and again; every command may fail.
NextGit ==
    \/ \E spawnOk \in BOOLEAN : AutoPushToBlog(spawnOk)
    \/ \E code \in ExitCodes, wrote \in BOOLEAN : RunCommand(code, wrote)
    \/ ExecCallback

SpecGit == Init /\ [][NextGit]_vars

\* The icon is clicked with a note in the source directory and one in the
\* directory inside it or none, a target that is empty or holds a file, any
\* of the lists of blogs, either setting of the
\* switch, of the mappings' strict mode and of the allocator's mode, and any
\* registry.
InitPassRun ==
    /\ now = 0
    /\ notes \in { [n \in Notes |-> IF n[1] = "A" THEN [mtime |-> 0, text |-> outer]
                                      ELSE inner] :
                     outer \in NoteTexts, inner \in {NoNote, [mtime |-> 0, text |-> <<"x">>]} }
    /\ srcFiles = [f \in FilePaths |->
                       LET n == CHOOSE m \in Notes : TreePath(m) = f IN notes[n].mtime]
    /\ tgtFiles \in { NoFiles, [NoFiles EXCEPT ![Nested] = 0] }
    /\ tgtDirs = UNION { Ancestors(f) : f \in FilesOf(tgtFiles) }
    /\ changedFiles = <<>>
    /\ op = NoOp("init")
    /\ cleanPasses = 0
    /\ timestampFile = NoTimestampFile
    /\ lastPass = [s \in Sources |-> Absent]
    /\ detOp = NoDetOp("none")
    /\ InitDoc /\ InitGit
    /\ registry \in Registries
    /\ sequentialSlugStart = DefaultSequentialSlugStart
    /\ persistedStart = DefaultSequentialSlugStart
    /\ slugGenerationMethod \in {"random", "sequential"}
    /\ pc = [c \in Invocations |-> "idle"]
    /\ usedIds = [c \in Invocations |-> <<>>]
    /\ newId = [c \in Invocations |-> 0]
    /\ call = [c \in Invocations |-> NoCall]
    /\ result = [c \in Invocations |-> NoResult]
    /\ issued = <<>>
    /\ calls = 0
    /\ lastSequential = <<>>
    /\ blogs \in PassBlogs
    /\ passPc = "idle"
    /\ blogIndex = 0
    /\ mappingIndex = 0
    /\ hasChanges = FALSE
    /\ allChangedFilesForBlog = <<>>
    /\ blogLog = [i \in DOMAIN blogs |-> NoBlogLog]
    /\ autoSlug \in BOOLEAN
    /\ \E strict \in BOOLEAN : enableFolderMatching = [i \in DOMAIN MappingSources |-> strict]
    /\ nestedTarget = Absent
    /\ passLog = NoPassLog

\* A file operation may throw while none has thrown in the invocation.
MayThrow(ok) == ok \/ ~passLog.failed

\* The steps of an invocation of copyMarkdownFiles; one of its file
\* operations may throw.
PassStep ==
    \/ CopyMarkdownFiles
    \/ BeginBlog
    \/ \E fault \in Faults : MayThrow(fault = "none") /\ PassDetect(fault)
    \/ \E ok \in BOOLEAN : MayThrow(ok) /\ PassSlugRead(ok)
    \/ \E ok \in BOOLEAN : MayThrow(ok) /\ GenReadFile(1, ok)
    \/ GenSequential(1)
    \/ \E ok \in BOOLEAN : MayThrow(ok) /\ GenSaveSettings(1, ok)
    \/ GenRandom(1)
    \/ \E ok \in BOOLEAN : MayThrow(ok) /\ GenWriteFile(1, ok)
    \/ \E ok \in BOOLEAN : MayThrow(ok) /\ PassSlugWrite(ok)
    \/ \E syncOk \in BOOLEAN, preserve \in BOOLEAN : MayThrow(syncOk) /\ PassSync(syncOk, preserve)
    \/ \E gitOk \in BOOLEAN : MayThrow(gitOk) /\ FinishBlog(gitOk)

\* An invocation of copyMarkdownFiles and, when nothing failed in it, the
\* invocation that follows it with no source file modified in between,
\* while time passes.
NextPass ==
    \/ PassStep
    \/ PassReturn
    \/ Tick

SpecPass == InitPassRun /\ [][NextPass]_vars

\* Every promise copyMarkdownFiles awaits is settled in the end: a step of
\* the invocation that can be taken is taken.
SpecPassFair == SpecPass /\ WF_vars(PassStep)

----------------------------------------------------------------------------
(* Properties of the reconciler (under Spec) *)

IsSyncStep == op'.name = "sync"

NoFailureIn(o) == o.failed = {} /\ ~o.srcUnreadable /\ ~o.tgtUnreadable

C2_AsStated ==
    [][IsSyncStep =>
        \A f \in FilePaths :
            (tgtFiles[f] # Absent /\ srcFiles[f] = Absent) =>
                IF op'.deleteExtra
                THEN tgtFiles'[f] = Absent /\ InSeq(f, changedFiles')
                ELSE tgtFiles'[f] = tgtFiles[f] /\ ~InSeq(f, changedFiles')]_vars

\* C2 amended: a file that is in the target and not in the source is deleted
\* and recorded by a pass with deleteExtra = true unless listing the target
\* or unlinking the file fails; in that case, and in every pass with
\* deleteExtra = false, it is left in place, unmodified and unrecorded.
C2_PruneOnlyWhenAsked ==
    [][IsSyncStep =>
        \A f \in FilePaths :
            (tgtFiles[f] # Absent /\ srcFiles[f] = Absent) =>
                IF op'.deleteExtra /\ f \notin op'.failed /\ ~op'.tgtUnreadable
                THEN tgtFiles'[f] = Absent /\ InSeq(f, changedFiles')
                ELSE tgtFiles'[f] = tgtFiles[f] /\ ~InSeq(f, changedFiles')]_vars

\* A pass with deleteExtra = true has deleted a target-only file and recorded it.
C2_Witness ==
    /\ op.name = "sync" /\ op.deleteExtra /\ NoFailureIn(op)
    /\ \E f \in FilePaths :
          /\ srcFiles[f] = Absent /\ tgtFiles[f] = Absent
          /\ InSeq(f, changedFiles)

\* The step copied f and recorded it.
CopiedAndRecorded(f) ==
    /\ InSeq(f, changedFiles')
    /\ tgtFiles'[f] # Absent
    /\ tgtFiles'[f] \in {srcFiles[f], now}

\* The step left the target's f alone and did not record it.
LeftAlone(f) == tgtFiles'[f] = tgtFiles[f] /\ ~InSeq(f, changedFiles')

\* The condition of the spec: no file at the target path, or a strictly newer source.
CopyCondition(f) == tgtFiles[f] = Absent \/ srcFiles[f] > tgtFiles[f]

\* C3 as stated: a source file is copied and recorded if and only if no file
\* exists at its target path or the source is strictly newer.
C3_AsStated ==
    [][IsSyncStep =>
        \A f \in FilePaths :
            srcFiles[f] # Absent => (CopiedAndRecorded(f) <=> CopyCondition(f))]_vars

\* C3 amended: when listing both trees and the stat, mkdir and copy of a
\* source file succeed, the file is copied and recorded if and only if no
\* file exists at its target path or the source is strictly newer (equal
\* times: no copy); a file whose stat, mkdir or copy fails is left alone.
C3_CopyIffMissingOrNewer ==
    [][IsSyncStep =>
        \A f \in FilePaths :
            srcFiles[f] # Absent =>
                /\ NoFailureIn(op') =>
                      /\ CopyCondition(f) => CopiedAndRecorded(f)
                      /\ ~CopyCondition(f) => LeftAlone(f)
                /\ f \in op'.failed => LeftAlone(f)]_vars

\* A failure-free pass has copied one file and skipped another whose target
\* copy carries the same, older, modification time as its source.
C3_Witness ==
    /\ op.name = "sync" /\ NoFailureIn(op)
    /\ \E f, g \in FilePaths :
          /\ InSeq(f, changedFiles) /\ tgtFiles[f] # Absent
          /\ srcFiles[g] # Absent /\ tgtFiles[g] = srcFiles[g]
          /\ tgtFiles[g] < now
          /\ ~InSeq(g, changedFiles)

\* C15 as stated: a pass over a source that is not a readable directory
\* copies no file into the target and deletes none from it, with
\* deleteExtra (enableFolderMatching) true or false.
C15_AsStated ==
    [][(IsSyncStep /\ op'.srcUnreadable) =>
          (tgtFiles' = tgtFiles /\ changedFiles' = <<>>)]_vars

\* The entries of a directory: the files in it and the directories in it.
Entries(d, dirs, files) ==
    { f \in FilePaths : files[f] # Absent /\ ParentDir(f) = d } \cup ChildDirs(d, dirs)

\* C16: after a syncDirectories call without filesystem failures no
\* directory under targetDir is empty, with deleteExtra true or false; a
\* directory that held only empty directories, or only files the pruning
\* deleted, is gone as well.
C16_NoEmptyDirectoryLeft ==
    [][(IsSyncStep /\ NoFailureIn(op')) =>
          \A d \in tgtDirs' : d # <<>> => Entries(d, tgtDirs', tgtFiles') # {}]_vars

\* A failure-free pass with deleteExtra = true has deleted the only file of
\* d/e and removed d/e and then d, while the root keeps its file.
C16_Witness ==
    /\ op.name = "sync" /\ op.deleteExtra /\ NoFailureIn(op)
    /\ InSeq(<<"d", "e", "b.md">>, changedFiles)
    /\ tgtFiles[<<"d", "e", "b.md">>] = Absent
    /\ tgtFiles[<<"a.md">>] # Absent
    /\ tgtDirs = {<<>>}

\* C17: when the stat, copy or delete of some files fails (both trees being
\* listed), those files are not recorded, and every other file is copied,
\* deleted or left alone as the conditions of the pass say.
C17_OtherFilesUnaffected ==
    [][(IsSyncStep /\ ~op'.srcUnreadable /\ ~op'.tgtUnreadable) =>
          \A f \in FilePaths :
              IF f \in op'.failed
              THEN ~InSeq(f, changedFiles')
              ELSE IF srcFiles[f] # Absent
              THEN IF CopyCondition(f) THEN CopiedAndRecorded(f) ELSE LeftAlone(f)
              ELSE IF tgtFiles[f] # Absent /\ op'.deleteExtra
              THEN tgtFiles'[f] = Absent /\ InSeq(f, changedFiles')
              ELSE LeftAlone(f)]_vars

\* C23 as stated: after a pass with deleteExtra = true in which no
\* individual file failed, the files under the target are the files under
\* the source, whatever the target held.
C23_AsStated ==
    [][(IsSyncStep /\ op'.deleteExtra /\ op'.failed = {}) =>
          FilesOf(tgtFiles') = FilesOf(srcFiles)]_vars

\* C23 amended: after a pass with deleteExtra = true in which no individual
\* file failed and the target was listed, the files under the target are
\* the files the listing of the source returned: the files under the source
\* when it can be read, and none when it cannot.
C23_MirrorOfTheListedSource ==
    [][(IsSyncStep /\ op'.deleteExtra /\ op'.failed = {} /\ ~op'.tgtUnreadable) =>
          FilesOf(tgtFiles') = IF op'.srcUnreadable THEN {} ELSE FilesOf(srcFiles)]_vars

\* A failure-free pass with deleteExtra = true has copied a.md, which the
\* target lacked, and deleted d/e/b.md, which the source lacks.
C23_Witness ==
    /\ op.name = "sync" /\ op.deleteExtra /\ NoFailureIn(op)
    /\ changedFiles = << <<"a.md">>, <<"d", "e", "b.md">> >>
    /\ FilesOf(srcFiles) = { <<"a.md">> }
    /\ FilesOf(tgtFiles) = { <<"a.md">> }

\* A pass in which one source file failed has copied and recorded the other.
C17_Witness ==
    /\ op.name = "sync" /\ ~op.srcUnreadable /\ ~op.tgtUnreadable
    /\ \E f, g \in FilePaths :
          /\ f \in op.failed /\ srcFiles[f] # Absent /\ tgtFiles[f] = Absent
          /\ g \notin op.failed /\ srcFiles[g] # Absent /\ tgtFiles[g] # Absent
          /\ changedFiles = <<g>>

----------------------------------------------------------------------------
(* Properties of the id allocator *)

Returned(c) == result[c].returned

NoDuplicates(seq) == \A i, j \in DOMAIN seq : i # j => seq[i] # seq[j]

\* C4 as stated (SpecAlloc): a call never returns an id that the persisted
\* registry held when the call began, and no id is issued twice.
C4_AsStated ==
    /\ \A c \in Invocations : Returned(c) => ~Includes(call[c].registry, result[c].id)
    /\ NoDuplicates(issued)

\* C5 as stated (SpecOverlap): two invocations that overlap return different
\* ids, and the registry holds both once both have returned.
C5_AsStated ==
    (Returned(1) /\ Returned(2) /\ call[1].overlapped /\ call[2].overlapped) =>
        /\ result[1].id # result[2].id
        /\ Includes(registry, result[1].id)
        /\ Includes(registry, result[2].id)

\* The smallest integer >= start whose decimal form the registry does not hold.
LeastFree(start, reg) ==
    CHOOSE n \in start..(start + Len(reg)) :
        /\ ~Includes(reg, ToString(n))
        /\ \A m \in start..(n - 1) : Includes(reg, ToString(m))

\* C6 as stated (SpecAlloc): a sequential call returns the smallest integer
\* >= the stored start that is not in the registry and stores that integer
\* + 1; the stored start does not decrease over the call, and the id is
\* greater than the one the previous sequential call returned.
C6_AsStated ==
    \A c \in Invocations :
        (Returned(c) /\ call[c].method = "sequential") =>
            LET found == LeastFree(call[c].start, call[c].registry)
            IN  /\ result[c].id = ToString(found)
                /\ call[c].startAfter = found + 1
                /\ call[c].startAfter >= call[c].start
                /\ call[c].previous # <<>> => found > call[c].previous[1]

\* C7 as stated (SpecAlloc): with an empty registry and a stored start of
\* zero or less, the sequential allocation issues the id "1".
C7_AsStated ==
    \A c \in Invocations :
        (/\ Returned(c) /\ call[c].method = "sequential"
         /\ call[c].start <= 0 /\ call[c].registry = <<>>)
            => result[c].id = <<"1">>

\* C8 as stated (SpecAlloc): every id the registry held before a call is
\* still in it after the call, also when reading the registry failed.
C8_AsStated ==
    \A c \in Invocations :
        (Returned(c) \/ result[c].threw) =>
            \A i \in DOMAIN call[c].registry : Includes(registry, call[c].registry[i])

\* The same three with the calls whose read of the registry threw left out:
\* what remains of C4, C6 and C8 when line 246 does not fail.
C4_WhenReadSucceeds ==
    /\ \A c \in Invocations :
          (Returned(c) /\ call[c].readOk) => ~Includes(call[c].registry, result[c].id)

C6_WhenReadSucceeds ==
    \A c \in Invocations :
        (Returned(c) /\ call[c].method = "sequential" /\ call[c].readOk) =>
            LET found == LeastFree(call[c].start, call[c].registry)
            IN  /\ result[c].id = ToString(found)
                /\ call[c].startAfter = found + 1
                /\ call[c].startAfter >= call[c].start
                /\ call[c].previous # <<>> => found > call[c].previous[1]

C8_WhenReadSucceeds ==
    \A c \in Invocations :
        ((Returned(c) \/ result[c].threw) /\ call[c].readOk) =>
            \A i \in DOMAIN call[c].registry : Includes(registry, call[c].registry[i])

----------------------------------------------------------------------------
(* Properties of the front-matter editor *)

\* The lines of a text: what the line breaks separate.
RECURSIVE Lines(_)
Lines(text) ==
    IF \A i \in DOMAIN text : text[i] # "\n"
    THEN <<text>>
    ELSE LET i == Min({ j \in DOMAIN text : text[j] = "\n" })
         IN  <<SubSeq(text, 1, i - 1)>> \o Lines(SubSeq(text, i + 1, Len(text)))

BeginsWith(line, word) ==
    Len(line) >= Len(word) /\ \A i \in DOMAIN word : line[i] = word[i]

\* A document carries an id when a line after its first introduces the id field.
CarriesId(doc) ==
    \E k \in 2..Len(Lines(doc)) : BeginsWith(Lines(doc)[k], SlugKey)

\* The id line of a document given the id.
IdLine(id) == <<"s", "l", "u", "g", ":", " ", "\"">> \o id \o <<"\"">>

\* The lines after the first that begin with the delimiter.
ClosingLines(doc) ==
    { k \in 2..Len(Lines(doc)) : BeginsWith(Lines(doc)[k], <<"-", "-", "-">>) }

InsertLine(lines, k, line) ==
    SubSeq(lines, 1, k - 1) \o <<line>> \o SubSeq(lines, k, Len(lines))

\* C9 (SpecDoc): addSlugToFile on a document that carries an id field leaves
\* the content of the file as it was, and asks the allocator for nothing.
C9_PresentIdIsKept ==
    CarriesId(docOp.before) =>
        /\ content = docOp.before
        /\ docOp.outcome \in {"kept", "readFailed"}
        /\ docPc = "idle"

C9_Witness ==
    /\ docOp.outcome = "kept"
    /\ CarriesId(docOp.before)
    /\ content = docOp.before

\* What C10 asks of the text written for a document and an id: with an
\* opening delimiter, the lines of the document with the id line put in
\* before the closing delimiter line (anywhere after the first line if
\* there is none); without, the three lines of a block and then the document.
InjectedAsStated(before, id, after) ==
    IF BeginsWith(Lines(before)[1], <<"-", "-", "-">>)
    THEN \E k \in 2..(Len(Lines(before)) + 1) :
            /\ Lines(after) = InsertLine(Lines(before), k, IdLine(id))
            /\ ClosingLines(before) # {} => k = Min(ClosingLines(before))
    ELSE Lines(after) = <<<<"-", "-", "-">>, IdLine(id), <<"-", "-", "-">>>> \o Lines(before)

\* C10 as stated (SpecDoc): for a document without an id field, the text
\* addSlugToFile writes is the document with the id line inserted just
\* before the closing delimiter line and nothing else changed when it opens
\* a front-matter block, also one it never closes, and otherwise the
\* document behind a block of opening delimiter, id line, closing delimiter.
C10_AsStated ==
    (docOp.outcome = "written" /\ ~CarriesId(docOp.before)) =>
        InjectedAsStated(docOp.before, docOp.id, content)

\* The same for the documents that close the block they open or open none:
\* what remains of C10 when line 228 finds the closing delimiter.
C10_WhenClosed ==
    (/\ docOp.outcome = "written"
     /\ ~CarriesId(docOp.before)
     /\ BeginsWith(Lines(docOp.before)[1], <<"-", "-", "-">>) => ClosingLines(docOp.before) # {})
        => InjectedAsStated(docOp.before, docOp.id, content)

\* C25: whenever addSlugToFile has written a document, hasSlug is true of the
\* text it wrote, whether the document began with a front-matter block or
\* the block was made for it; and a text of which hasSlug is true is never
\* written again, so a document receives an id at most once.
C25_InjectionIsDetected ==
    /\ (docOp.outcome = "written" => (~HasSlug(docOp.before) /\ HasSlug(content)))
    /\ (HasSlug(docOp.before) =>
            (docOp.outcome \in {"kept", "readFailed"} /\ content = docOp.before))

\* An id has been put into the document that is an empty front-matter block,
\* and a second addSlugToFile on the written text has left it alone.
C25_Witness ==
    /\ docOp.outcome = "kept"
    /\ Len(issued) = 1
    /\ content = Delimiter \o NewLine \o SlugKey \o Space \o Quote \o issued[1] \o Quote
                    \o NewLine \o Delimiter

\* The same where the document began with other text and the block was made
\* for it.
C25_WitnessSynthesized ==
    /\ docOp.outcome = "kept"
    /\ StartsWith(content, Delimiter \o NewLine \o SlugKey)
    /\ Len(issued) = 1
    /\ IndexOf(content, Quote \o issued[1] \o Quote, 0) # -1

----------------------------------------------------------------------------
(* Properties of the change detector (under SpecDetect) *)

\* The step is a getFilesToProcess call.
IsDetectStep == detOp'.name = "detect" /\ now' = now

\* In the call no file operation threw.
NothingThrew(o) ==
    o.readOk /\ o.writeOk /\ o.statFailed = {} /\ o.unreadable = {}

\* The file is one of mdFiles.
Listed(n) == n[1] = detOp'.source /\ notes[n].mtime # Absent

\* The call reported the file.
Reported(n) == InSeq(n, detOp'.filesToProcess)

LacksId(n) == ~CarriesId(notes[n].text)

\* The timestamp file holds a number.
TimestampParses ==
    /\ timestampFile.data # <<>>
    /\ \A i \in DOMAIN timestampFile.data : IsDigit(timestampFile.data[i])

\* The persisted last-run timestamp: 0 when the file is absent or unparsable.
StoredTimestamp ==
    IF timestampFile.exists /\ TimestampParses
    THEN DigitsValue(timestampFile.data, 0)
    ELSE 0

\* C11 as stated: in a call in which no file operation throws, a listed file
\* is reported if and only if its modification time is strictly greater than
\* the persisted last-run timestamp (0 when there is none) or it lacks an id
\* field.
C11_AsStated ==
    [][(IsDetectStep /\ NothingThrew(detOp')) =>
          \A n \in Notes :
              Listed(n) =>
                  (Reported(n) <=> (notes[n].mtime > StoredTimestamp \/ LacksId(n)))]_vars

\* The same when the timestamp file is absent or holds a number: what
\* remains of C11 when parseInt does not return NaN.
C11_WhenTimestampParses ==
    [][(IsDetectStep /\ NothingThrew(detOp') /\ (timestampFile.exists => TimestampParses)) =>
          \A n \in Notes :
              Listed(n) =>
                  (Reported(n) <=> (notes[n].mtime > StoredTimestamp \/ LacksId(n)))]_vars

\* C12 as stated: when the timestamp file is absent, cannot be read or holds
\* unparsable content, the call does not throw and reports as with a
\* timestamp of 0: every listed file modified after time 0, with or without
\* an id, and besides those only files that lack an id.
C12_AsStated ==
    [][(/\ IsDetectStep
        /\ detOp'.writeOk /\ detOp'.statFailed = {} /\ detOp'.unreadable = {}
        /\ (~detOp'.readOk \/ ~timestampFile.exists \/ ~TimestampParses)) =>
          /\ ~detOp'.threw
          /\ \A n \in Notes :
                Listed(n) => (Reported(n) <=> (notes[n].mtime > 0 \/ LacksId(n)))]_vars

\* The same for a file that is absent or cannot be read: what remains of C12
\* when the content is not unparsable.
C12_WhenAbsent ==
    [][(/\ IsDetectStep
        /\ detOp'.writeOk /\ detOp'.statFailed = {} /\ detOp'.unreadable = {}
        /\ (~detOp'.readOk \/ ~timestampFile.exists)) =>
          /\ ~detOp'.threw
          /\ \A n \in Notes :
                Listed(n) => (Reported(n) <=> (notes[n].mtime > 0 \/ LacksId(n)))]_vars

\* C13 as stated: when control leaves getFilesToProcess the timestamp file
\* holds the current time, also when the stat of a listed file failed (the
\* write of the timestamp itself not failing).
C13_AsStated ==
    [][(IsDetectStep /\ detOp'.writeOk) =>
          timestampFile' = [exists |-> TRUE, data |-> ToString(now)]]_vars

\* The same for the calls in which every stat succeeds.
C13_WhenStatSucceeds ==
    [][(IsDetectStep /\ detOp'.writeOk /\ detOp'.statFailed = {}) =>
          timestampFile' = [exists |-> TRUE, data |-> ToString(now)]]_vars

\* C14 as stated: detection state is kept per source directory, so a pass
\* over a directory (no file operation throwing, the timestamp file holding
\* a number) reports every listed file modified after the previous pass
\* over that same directory, whatever passes over other directories came
\* in between.
C14_AsStated ==
    [][(/\ IsDetectStep /\ NothingThrew(detOp')
        /\ timestampFile.exists /\ TimestampParses
        /\ lastPass[detOp'.source] # Absent) =>
          \A n \in Notes :
              (Listed(n) /\ notes[n].mtime > lastPass[detOp'.source]) => Reported(n)]_vars

\* The same when the last pass that returned was over the same directory.
C14_WhenNoOtherDirectory ==
    [][(/\ IsDetectStep /\ NothingThrew(detOp')
        /\ timestampFile.exists /\ TimestampParses
        /\ lastPass[detOp'.source] # Absent
        /\ \A s \in Sources : lastPass[s] <= lastPass[detOp'.source]
        /\ \A s \in Sources : s # detOp'.source => lastPass[s] < lastPass[detOp'.source]) =>
          \A n \in Notes :
              (Listed(n) /\ notes[n].mtime > lastPass[detOp'.source]) => Reported(n)]_vars

----------------------------------------------------------------------------
(* Properties of the orchestrator (under SpecPublish) *)

\* The loop is past the blog.
Processed(i) == blogLog[i].notice # "none"

\* C18: a failure while processing a blog (a mapping that throws, a push
\* that fails) is reported for that blog, and every blog after it in the
\* list is processed in the same invocation: when copyMarkdownFiles has
\* returned, every blog has been given its notice, and each complete blog
\* after a failed one has had its mappings reconciled up to its own end or
\* its own failure.
C18_LaterBlogsStillProcessed ==
    passPc = "done" =>
        \A i \in DOMAIN blogs :
            /\ Processed(i)
            /\ \A j \in DOMAIN blogs :
                  (j < i /\ blogLog[j].notice = "failed" /\ blogs[i].complete) =>
                      \/ blogLog[i].notice = "failed"
                      \/ blogLog[i].reconciled = blogs[i].mappings

\* The push of the first blog failed and the second blog was reconciled,
\* pushed and reported as synced.
C18_Witness ==
    /\ passPc = "done"
    /\ Len(blogs) = 2
    /\ blogLog[1].notice = "failed" /\ blogLog[1].pushes = 1
    /\ blogLog[2].notice = "synced" /\ blogLog[2].pushes = 1
    /\ blogLog[2].reconciled = blogs[2].mappings

\* C19: for each blog the commit and push are invoked at most once, only
\* after all of its mappings have been reconciled, and, once all of them
\* have been, exactly when the changes gathered over them are not empty and
\* the blog's autoGit is set.
C19_PushOnceAfterAllMappings ==
    \A i \in DOMAIN blogs :
        /\ blogLog[i].pushes <= 1
        /\ blogLog[i].pushes = 1 =>
              /\ blogLog[i].pushedAfter = blogs[i].mappings
              /\ blogLog[i].reconciled = blogs[i].mappings
              /\ blogLog[i].changes # <<>>
              /\ blogs[i].autoGit
        /\ (/\ Processed(i) /\ blogs[i].complete
            /\ blogLog[i].reconciled = blogs[i].mappings
            /\ blogLog[i].changes # <<>>
            /\ blogs[i].autoGit) => blogLog[i].pushes = 1

\* A blog with two mappings, of which only the second returned changes, was
\* pushed once, after the second.
C19_Witness ==
    \E i \in DOMAIN blogs :
        /\ blogs[i].mappings = 2
        /\ blogLog[i].pushes = 1 /\ blogLog[i].pushedAfter = 2
        /\ blogLog[i].changes = << <<"notes", "a.md">> >>
        /\ blogLog[i].notice = "synced"

----------------------------------------------------------------------------
(* Properties of autoPushToBlog (under SpecGit) *)

\* The commit has exited with a code other than 0.
CommitFailed == Len(shell.codes) >= 3 /\ shell.codes[3] # 0

\* C21: the commands run in the order of the line, each only after every
\* command before it exited with 0; when the commit exits with another code
\* the push is not run; the call starts one process and no other; and the
\* promise of a call whose commit failed is rejected with the text of stderr,
\* or with the fallback message when stderr is empty.
C21_StopsAtTheFirstFailure ==
    /\ \A i \in 1..Len(shell.ran) :
           /\ shell.ran[i] = Commands[i]
           /\ \A j \in 1..(i - 1) : shell.codes[j] = 0
    /\ CommitFailed => ~InSeq("git push", shell.ran)
    /\ shell.pc # "idle" => shell.execs = 1
    /\ (shell.pc = "settled" /\ CommitFailed) =>
           /\ shell.settled = "rejected"
           /\ shell.message = IF shell.stderr = <<>> THEN <<GitFailed>> ELSE shell.stderr

\* The commit found nothing to commit: it exited with 1 and wrote nothing on
\* stderr, and the call was rejected with the fallback message.
C21_Witness ==
    /\ shell.pc = "settled"
    /\ shell.ran = <<"cd", "git add", "git commit">>
    /\ shell.codes = <<0, 0, 1>>
    /\ shell.stderr = <<>>
    /\ shell.settled = "rejected"
    /\ shell.message = <<GitFailed>>

----------------------------------------------------------------------------
(* Properties of createCommitMessage (under SpecMessage) *)

\* The changed file at position i is the first of its name.
FirstOfItsName(list, i) ==
    \A j \in 1..(i - 1) : list[j][Len(list[j])] # list[i][Len(list[i])]

\* The number of distinct names among the changed files.
NumDistinct(list) == Cardinality({ list[i][Len(list[i])] : i \in DOMAIN list })

\* The k-th distinct name, in the order of the list.
KthName(list, k) ==
    LET i == CHOOSE i \in DOMAIN list :
                 /\ FirstOfItsName(list, i)
                 /\ Cardinality({ j \in 1..i : FirstOfItsName(list, j) }) = k
    IN  list[i][Len(list[i])]

\* The message opens with its prefix and the first five distinct names (all
\* of them when there are fewer), separated by commas.
ListsFirstFive(list, msg) ==
    LET m == IF NumDistinct(list) < 5 THEN NumDistinct(list) ELSE 5
    IN  /\ Len(msg) >= 2 * m
        /\ msg[1] = "updated files: "
        /\ \A k \in 1..m : msg[2 * k] = KthName(list, k)
        /\ \A k \in 1..(m - 1) : msg[2 * k + 1] = ", "

\* What follows the names in the message.
Suffix(list, msg) ==
    LET m == IF NumDistinct(list) < 5 THEN NumDistinct(list) ELSE 5
    IN  SubSeq(msg, 2 * m + 1, Len(msg))

----------------------------------------------------------------------------
(* Properties of the whole pass (under SpecPass and SpecPassFair) *)

\* The step is one of an invocation of copyMarkdownFiles.
IsPassStep == ~(passPc = "idle" /\ passPc' = "idle")

\* The invocation has ended and every blog of the settings has been given
\* its notice.
PassEnded == passPc = "done" /\ \A i \in DOMAIN blogs : Processed(i)

\* C22 as stated: an invocation of copyMarkdownFiles, whose awaited calls
\* all return, ends having visited every blog, whatever the settings, the
\* registry and the mode of the allocator.
C22_AsStated == (passPc = "blog") ~> PassEnded

\* The same when no id is drawn at random: the switch is off or the mode is
\* sequential.
C22_WhenNoRandomDraw ==
    (passPc = "blog" /\ (~autoSlug \/ slugGenerationMethod = "sequential")) ~> PassEnded

\* The invocation follows one that went through without a failure, no note
\* having been written since, and nothing has failed in it.
FollowsACleanPass == passLog.again /\ ~passLog.failed

\* The invocation has been given no id, has rewritten no note, has copied
\* and deleted nothing and has not called for a commit and push.
DidNothing ==
    /\ passLog.allocated = 0
    /\ passLog.rewritten = 0
    /\ \A i \in DOMAIN blogs : blogLog[i].changes = <<>> /\ blogLog[i].pushes = 0

\* C24 as stated: the invocation that follows a failure-free one, no source
\* file having been modified in between, allocates no id, rewrites no source
\* file, copies and deletes nothing and does not commit and push.
C24_AsStated == FollowsACleanPass => DidNothing

\* The same for the settings in which no mapping's source lies inside the
\* source of another: the blog has the one mapping.
C24_WhenNoSourceInsideAnother ==
    (FollowsACleanPass /\ \A i \in DOMAIN blogs : blogs[i].mappings <= 1) => DidNothing

\* C26: with the switch off, the steps of an invocation leave the text and
\* the modification time of every source file, the registry and the start
\* value, in the settings and as saved, as they are.
C26_SwitchOffLeavesSourcesAlone ==
    [][(~autoSlug /\ IsPassStep) =>
          UNCHANGED <<notes, srcFiles, registry, sequentialSlugStart, persistedStart>>]_vars

\* With the switch off an invocation has ended that found a note without an
\* id, copied it to the target and wrote the timestamp: the note has no id
\* still and the registry is empty.
C26_Witness ==
    /\ ~autoSlug
    /\ passPc = "done"
    /\ notes[<<"A", "a.md">>].mtime # Absent
    /\ ~HasSlug(notes[<<"A", "a.md">>].text)
    /\ tgtFiles[<<"a.md">>] # Absent
    /\ timestampFile.exists
    /\ registry = <<>>
    /\ \E i \in DOMAIN blogs : blogLog[i].notice = "synced"

====
